---- MODULE Spec2Model ----
(***************************************************************************)
(* Model of mmctools/measurements/lidar.py: the indexed scan container     *)
(* LidarData (classification, range-gate validation, accessors, slicers),  *)
(* the GalionCornellPEIWEE loader with its post-construction filters, and  *)
(* the precondition handling of calc_xyz.                                  *)
(*                                                                         *)
(* A table (pandas DataFrame) is a sequence of rows in index order; a row  *)
(* is [key |-> <<v1,..,vn>>, data |-> [column -> value]], the key holding  *)
(* one value per index level, in the order of `names`.  An optional        *)
(* (None-able) Python value is <<>> for None and <<v>> for v.              *)
(*                                                                         *)
(* Range values are gate centers minimum_range + g*size + size/2 with an   *)
(* even size, azimuths are multiples of 90 and elevations multiples of 10, *)
(* so every difference of two level values is even and the true division  *)
(* range_gate_size/2 of the code is exact in the integers.                 *)
(***************************************************************************)
EXTENDS Integers, Sequences, FiniteSets

VARIABLES
    names,            \* df.index.names of the table handed to the container
    plain,            \* whether df.index is a plain Index (without .levels)
    df,               \* self.df
    raw,              \* rows of the file read by GalionCornellPEIWEE._load
    preset,           \* range_gate_size attribute present before _check_data
    pc,               \* "new", "ready" (constructed), "failed" (constructor raised)
    scan,             \* classification message of _check_data
    RHI, PPI,         \* self.RHI, self.PPI
    range_gate_size,  \* self.range_gate_size
    rmin, rmax,       \* self.rmin, self.rmax
    call,             \* the last operation called, with its arguments
    err,              \* exception raised by the last operation ("none" if it returned)
    ret               \* value returned by the last operation

cont == <<names, plain, df, raw, preset, pc, scan, RHI, PPI, range_gate_size, rmin, rmax>>
vars == <<names, plain, df, raw, preset, pc, scan, RHI, PPI, range_gate_size, rmin, rmax,
          call, err, ret>>

\* ------------------------------------------------------------------ bounds
MaxGate == 3      \* range gate numbers are 0..MaxGate
MaxAz == 2        \* azimuths are 90*k, k in 0..MaxAz
MaxEl == 1        \* elevations are 10 + 10*k, k in 0..MaxEl
MaxFileGate == 1  \* range gate numbers in a file of the PEIWEE loader
MaxRows == 3      \* rows of a file read by the PEIWEE loader
MaxIntensity == 2 \* intensities are 1..MaxIntensity

\* ------------------------------------------------------- program constants
minimum_range == 0
default_gate_size == 30
default_elevation == 0
NaN == -1

None == <<>>
Some(v) == <<v>>
Val(o) == o[1]

AllNames == <<"range", "azimuth", "elevation">>

\* ----------------------------------------------------------------- helpers
Min(S) == CHOOSE x \in S : \A y \in S : x <= y

Abs(x) == IF x < 0 THEN -x ELSE x

RECURSIVE SortedSeq(_)
SortedSeq(S) == IF S = {} THEN <<>>
                ELSE LET m == Min(S) IN <<m>> \o SortedSeq(S \ {m})

Range(s) == {s[i] : i \in DOMAIN s}

\* position of level `name` in the index names, 0 if there is no such level
LevelOf(nms, name) == IF \E i \in DOMAIN nms : nms[i] = name
                      THEN CHOOSE i \in DOMAIN nms : nms[i] = name
                      ELSE 0

\* lexicographic order of two keys of the same length
RECURSIVE KeyLess(_, _)
KeyLess(a, b) == IF a = <<>> THEN FALSE
                 ELSE \/ a[1] < b[1]
                      \/ a[1] = b[1] /\ KeyLess(Tail(a), Tail(b))

\* DataFrame.sort_index(): the rows in ascending key order
RECURSIVE SortIndex(_)
SortIndex(rows) ==
    IF rows = {} THEN <<>>
    ELSE LET m == CHOOSE x \in rows : \A y \in rows : x = y \/ KeyLess(x.key, y.key)
         IN <<m>> \o SortIndex(rows \ {m})

\* df.index.levels[i] of a table built by set_index: the sorted distinct
\* values of level i (1-based here)
Levels(t, i) == SortedSeq({t[k].key[i] : k \in DOMAIN t})

\* df.index.get_level_values(name): the per-row values of that level
GetLevelValues(t, i) == [k \in DOMAIN t |-> t[k].key[i]]

\* an all-missing payload: every column of the row set to np.nan
Masked(row) == [row EXCEPT !.data = [c \in DOMAIN row.data |-> NaN]]

\* df.loc[mask, :] = np.nan, the mask given as the set of row positions it
\* selects
SetNaN(t, mask) == [k \in DOMAIN t |-> IF k \in mask THEN Masked(t[k]) ELSE t[k]]

\* elementwise comparison with a possibly missing value: any comparison
\* with NaN is False
Lt(a, b) == a # NaN /\ b # NaN /\ a < b
Gt(a, b) == a # NaN /\ b # NaN /\ a > b

\* ------------------------------------------------- LidarData._check_data
\* the coordinate check: the message printed and the flags set, or IndexError
Classify(nms) ==
    LET has(c) == c \in Range(nms)
    IN IF \A c \in Range(AllNames) : has(c)
         THEN [err |-> "none", scan |-> "volumetric", RHI |-> FALSE, PPI |-> FALSE]
       ELSE IF ~has("range")
         THEN [err |-> "none", scan |-> "vertical", RHI |-> FALSE, PPI |-> FALSE]
       ELSE IF ~has("azimuth")
         THEN [err |-> "none", scan |-> "RHI", RHI |-> TRUE, PPI |-> FALSE]
       ELSE IF ~has("elevation")
         THEN [err |-> "none", scan |-> "PPI", RHI |-> FALSE, PPI |-> TRUE]
       ELSE [err |-> "IndexError", scan |-> "", RHI |-> FALSE, PPI |-> FALSE]

\* the gate size the range check settles on: the difference of the first two
\* values of level 0
GateSpacing(rarray) == rarray[2] - rarray[1]

\* the range check: [err, range_gate_size, rmin, rmax]
CheckRanges(t, isPlain, pre) ==
    IF isPlain
      THEN [err |-> "AttributeError", size |-> 0, rmin |-> 0, rmax |-> 0]
    ELSE LET rarray == Levels(t, 1)
         IN IF Len(rarray) < 2
              THEN [err |-> "IndexError", size |-> 0, rmin |-> 0, rmax |-> 0]
            ELSE LET dr == GateSpacing(rarray)
                 IN IF pre # None /\ Val(pre) # dr
                      THEN [err |-> "AssertionError", size |-> 0, rmin |-> 0, rmax |-> 0]
                    ELSE [err |-> "none", size |-> dr,
                          rmin |-> rarray[1] - dr \div 2,
                          rmax |-> rarray[Len(rarray)] + dr \div 2]

\* _check_data as a whole: the first error raised, or the fields it sets
CheckData(nms, t, isPlain, pre) ==
    LET c == Classify(nms)
        g == CheckRanges(t, isPlain, pre)
        e == IF c.err # "none" THEN c.err ELSE g.err
    IN [err |-> e, scan |-> c.scan, RHI |-> c.RHI, PPI |-> c.PPI,
        size |-> g.size, rmin |-> g.rmin, rmax |-> g.rmax]

\* ---------------------------------------------------------- input tables
RangeVals == {minimum_range + g * default_gate_size + default_gate_size \div 2 : g \in 0..MaxGate}
AzVals == {90 * k : k \in 0..MaxAz}
ElVals == {10 + 10 * k : k \in 0..MaxEl}

NonEmpty(S) == SUBSET S \ {{}}

\* the index level names a table can carry: the nonempty subsequences of
\* (range, azimuth, elevation)
NameSeqs == {<<"range", "azimuth", "elevation">>, <<"azimuth", "elevation">>,
             <<"range", "elevation">>, <<"range", "azimuth">>,
             <<"range">>, <<"azimuth">>, <<"elevation">>}

\* the table with one row per combination of the given axis values, sorted by
\* key; the payload of a row is its position, so rows are told apart
MakeTable(nms, rs, azs, els) ==
    LET vals(c) == IF c = "range" THEN rs ELSE IF c = "azimuth" THEN azs ELSE els
        keys == {k \in [1..Len(nms) -> rs \cup azs \cup els] :
                     \A i \in 1..Len(nms) : k[i] \in vals(nms[i])}
        sorted == SortIndex({[key |-> k, data |-> [intensity |-> 0]] : k \in keys})
    IN [i \in DOMAIN sorted |-> [sorted[i] EXCEPT !.data = [intensity |-> i]]]

\* the axis values of a scan: any gates (a gate may be absent from the
\* data), and a sweep of the first azimuths and of the first elevations
AzSets == {{90 * k : k \in 0..n} : n \in 0..MaxAz}
ElSets == {{10 + 10 * k : k \in 0..n} : n \in 0..MaxEl}

TablesFor(nms) == {MakeTable(nms, rs, azs, els) :
                     rs \in NonEmpty(RangeVals), azs \in AzSets, els \in ElSets}

\* gate sizes a subclass may have fixed before validation
PresetSizes == {None, Some(default_gate_size), Some(2 * default_gate_size)}

NoCall == [name |-> "none"]

Init ==
    /\ names \in NameSeqs
    /\ plain \in (IF Len(names) > 1 THEN {FALSE} ELSE BOOLEAN)
    /\ df \in TablesFor(names)
    /\ raw = <<>>
    /\ preset \in PresetSizes
    /\ pc = "new"
    /\ scan = ""
    /\ RHI = FALSE /\ PPI = FALSE
    /\ range_gate_size = 0 /\ rmin = 0 /\ rmax = 0
    /\ call = NoCall
    /\ err = "none"
    /\ ret = [sel |-> None, ret |-> None]

\* ---------------------------------------------------- LidarData.__init__
LidarData ==
    /\ pc = "new"
    /\ raw = <<>>
    /\ LET c == CheckData(names, df, plain, preset)
       IN IF c.err = "none"
            THEN /\ pc' = "ready"
                 /\ scan' = c.scan
                 /\ RHI' = c.RHI /\ PPI' = c.PPI
                 /\ range_gate_size' = c.size
                 /\ rmin' = c.rmin /\ rmax' = c.rmax
                 /\ err' = "none"
            ELSE /\ pc' = "failed"
                 /\ err' = c.err
                 /\ UNCHANGED <<scan, RHI, PPI, range_gate_size, rmin, rmax>>
    /\ call' = [name |-> "LidarData"]
    /\ ret' = [sel |-> None, ret |-> None]
    /\ UNCHANGED <<names, plain, df, raw, preset>>

\* ------------------------------------------------- accessors r, az, el
\* df.index.levels[i] (0-based i in the code, 1-based here): IndexError when
\* the index has fewer levels
LevelAt(nms, t, i) ==
    IF i > Len(nms) THEN [err |-> "IndexError", val |-> <<>>]
    ELSE [err |-> "none", val |-> Levels(t, i)]

r_prop == LevelAt(names, df, 1)
az_prop == LevelAt(names, df, 2)
el_prop == LevelAt(names, df, 3)

\* ---------------------------------------------------------------- slicers
Raise(e) == [err |-> e, sel |-> None, ret |-> None]

\* np.where(r < right_edges)[0][0]: the first gate whose right edge exceeds r
FirstGate(rarray, size, r) ==
    Min({i \in DOMAIN rarray : r < rarray[i] + size \div 2})

\* self.df.loc[(rsel,slice(None),slice(None)),:]: the rows of that level-0
\* value, the key unchanged.  A null slice selects every value of the level
\* it stands for and is passed over without a look at that level, so the
\* lookup is taken to return the same rows on an index of fewer levels.
LocRange(nms, t, rsel) ==
    [names |-> nms, rows |-> SelectSeq(t, LAMBDA row : row.key[1] = rsel)]

get_range(nms, t, size, lo, hi, r) ==
    LET rarray == Levels(t, 1)
    IN IF r < lo THEN Raise("ValueError")
       ELSE IF r >= hi THEN Raise("ValueError")
       ELSE IF r \notin Range(rarray)
         THEN LET idx == FirstGate(rarray, size, r)
                  rsel == rarray[idx]
                  r0 == rsel - size \div 2
                  r1 == rsel + size \div 2
              IN IF ~(r >= r0 /\ r < r1) THEN Raise("AssertionError")
                 ELSE [err |-> "none", sel |-> Some(rsel), ret |-> Some(LocRange(nms, t, rsel))]
       ELSE [err |-> "none", sel |-> Some(r), ret |-> Some(LocRange(nms, t, r))]

\* np.argmin(np.abs(v - arr)): the first position of the least distance
ArgMin(arr, v) ==
    Min({i \in DOMAIN arr : \A j \in DOMAIN arr : Abs(v - arr[i]) <= Abs(v - arr[j])})

\* DataFrame.xs(v, level=name): the rows whose level `name` is v, that level
\* dropped from the key; KeyError for an unknown level or an absent value
Drop(s, i) == [k \in 1..(Len(s) - 1) |-> IF k < i THEN s[k] ELSE s[k + 1]]

Xs(nms, t, v, name) ==
    LET i == LevelOf(nms, name)
    IN IF i = 0 THEN Raise("KeyError")
       ELSE IF \A k \in DOMAIN t : t[k].key[i] # v THEN Raise("KeyError")
       ELSE LET rows == SelectSeq(t, LAMBDA row : row.key[i] = v)
            IN [err |-> "none", sel |-> Some(v),
                ret |-> Some([names |-> Drop(nms, i),
                              rows |-> [k \in DOMAIN rows |->
                                          [rows[k] EXCEPT !.key = Drop(rows[k].key, i)]]])]

\* the common body of get_azimuth (lvl = 2) and get_elevation (lvl = 3)
Nearest(nms, t, lvl, name, v) ==
    LET l == LevelAt(nms, t, lvl)
        arr == l.val
    IN IF l.err # "none" THEN Raise(l.err)
       ELSE IF v < arr[1] THEN Raise("ValueError")
       ELSE IF v > arr[Len(arr)] THEN Raise("ValueError")
       ELSE IF v \notin Range(arr) THEN Xs(nms, t, arr[ArgMin(arr, v)], name)
       ELSE Xs(nms, t, v, name)

get_azimuth(nms, t, az) == Nearest(nms, t, 2, "azimuth", az)

get_elevation(nms, t, el) == Nearest(nms, t, 3, "elevation", el)

\* the dispatcher: the first of r, az, el that is not None
get(nms, t, size, lo, hi, r, az, el) ==
    IF r # None THEN get_range(nms, t, size, lo, hi, Val(r))
    ELSE IF az # None THEN get_azimuth(nms, t, Val(az))
    ELSE IF el # None THEN get_elevation(nms, t, Val(el))
    ELSE [err |-> "none", sel |-> None, ret |-> None]

\* requested values: gate edges, gate centers, one unit below each, the
\* available azimuths and elevations, the values halfway between them and
\* one unit outside
RQueries == {(default_gate_size \div 2) * k - d : k \in 0..(2 * MaxGate + 2), d \in {0, 1}}
AzQueries == {45 * k : k \in 0..(2 * MaxAz)} \cup {-1, 90 * MaxAz + 1}
ElQueries == {10 + 5 * k : k \in 0..(2 * MaxEl)} \cup {9, 10 + 10 * MaxEl + 1}
AngleQueries == AzQueries \cup ElQueries

Returned(res) ==
    /\ err' = res.err
    /\ ret' = [sel |-> res.sel, ret |-> res.ret]
    /\ UNCHANGED cont

GetRange(r) ==
    /\ pc = "ready"
    /\ call' = [name |-> "get_range", r |-> r]
    /\ Returned(get_range(names, df, range_gate_size, rmin, rmax, r))

\* a variant that keeps the slice it returns as the container's table
GetAzimuth_KeepsSlice(az) ==
    /\ pc = "ready"
    /\ call' = [name |-> "get_azimuth", az |-> az]
    /\ LET res == get_azimuth(names, df, az)
       IN /\ err' = res.err
          /\ ret' = [sel |-> res.sel, ret |-> res.ret]
          /\ df' = IF res.err = "none" THEN Val(res.ret).rows ELSE df
          /\ names' = IF res.err = "none" THEN Val(res.ret).names ELSE names
    /\ UNCHANGED <<plain, raw, preset, pc, scan, RHI, PPI, range_gate_size, rmin, rmax>>

GetAzimuth(az) ==
    /\ pc = "ready"
    /\ call' = [name |-> "get_azimuth", az |-> az]
    /\ Returned(get_azimuth(names, df, az))

GetElevation(el) ==
    /\ pc = "ready"
    /\ call' = [name |-> "get_elevation", el |-> el]
    /\ Returned(get_elevation(names, df, el))

Get(r, az, el) ==
    /\ pc = "ready"
    /\ call' = [name |-> "get", r |-> r, az |-> az, el |-> el]
    /\ Returned(get(names, df, range_gate_size, rmin, rmax, r, az, el))

Slice ==
    \/ \E r \in RQueries : GetRange(r)
    \/ \E az \in AngleQueries : GetAzimuth(az)
    \/ \E el \in AngleQueries : GetElevation(el)
    \/ \E r \in {None, Some(default_gate_size \div 2)},
          az \in {None, Some(45)}, el \in {None, Some(10)} : Get(r, az, el)

\* ---------------------------------------------------------------- calc_xyz
\* The coordinate each of r, az, el is taken from: the index level of that
\* name, or the constant argument.  The products of sines and cosines are
\* kept symbolic: the result names the formula used and its three operands.
FromIndex(name) == <<"index", name>>
FromConst(v) == <<"const", v>>

calc_xyz(nms, range, azimuth, elevation, small_elevation_angles) ==
    LET has(c) == c \in Range(nms)
    IN IF ~has("range") /\ range = None THEN Raise("AssertionError")
       ELSE IF ~has("azimuth") /\ range = None THEN Raise("AssertionError")
       ELSE IF ~has("azimuth") /\ azimuth = None THEN Raise("TypeError")
       ELSE [err |-> "none", sel |-> None,
             ret |-> Some([form |-> IF small_elevation_angles THEN "small" ELSE "full",
                           r |-> IF has("range") THEN FromIndex("range")
                                 ELSE FromConst(Val(range)),
                           az |-> IF has("azimuth") THEN FromIndex("azimuth")
                                  ELSE FromConst(Val(azimuth)),
                           el |-> IF has("elevation") THEN FromIndex("elevation")
                                  ELSE FromConst(elevation)])]

CalcXYZ(range, azimuth, elevation, small) ==
    /\ pc \in {"new", "ready"}
    /\ df # <<>>
    /\ call' = [name |-> "calc_xyz", range |-> range, azimuth |-> azimuth,
                elevation |-> elevation, small |-> small]
    /\ Returned(calc_xyz(names, range, azimuth, elevation, small))

Transform ==
    \E range \in {None, Some(100)}, azimuth \in {None, Some(90)},
       elevation \in {default_elevation, 10}, small \in BOOLEAN :
        CalcXYZ(range, azimuth, elevation, small)

Next == LidarData \/ Slice \/ Transform

Spec == Init /\ [][Next]_vars

\* ------------------------------------------- GalionCornellPEIWEE._load
\* a file row is [range_gate, azimuth, elevation, intensity]; the loaded
\* table is keyed by (gate center, azimuth, elevation) and sorted
GateCenter(g, minimum, size) == minimum + g * size + size \div 2

PEIWEE_load(file, minimum, size) ==
    SortIndex({[key |-> <<GateCenter(file[k].range_gate, minimum, size),
                          file[k].azimuth, file[k].elevation>>,
                data |-> [range_gate |-> file[k].range_gate,
                          intensity |-> file[k].intensity]] : k \in DOMAIN file})

PEIWEE_names == <<"range", "azimuth", "elevation">>

\* ---------------------------------- GalionCornellPEIWEE._filter_by_range
\* range_gates and ranges are None or Some(<<lo, hi>>), lo and hi optional
FilterByRange(t, range_gates, ranges) ==
    LET allranges == GetLevelValues(t, 1)
    IN IF range_gates = None /\ ranges = None THEN [err |-> "AssertionError", df |-> t]
       ELSE IF range_gates # None
         THEN LET g0 == Val(range_gates)[1]
                  g1 == Val(range_gates)[2]
              IN IF g0 # None /\ Val(g0) + 1 > Len(allranges)
                   THEN [err |-> "IndexError", df |-> t]
                 ELSE LET t1 == IF g0 = None THEN t
                                ELSE SetNaN(t, {k \in DOMAIN t :
                                         allranges[k] <= allranges[Val(g0) + 1]})
                      IN IF g1 # None /\ Val(g1) + 1 > Len(allranges)
                           THEN [err |-> "IndexError", df |-> t1]
                         ELSE [err |-> "none",
                               df |-> IF g1 = None THEN t1
                                      ELSE SetNaN(t1, {k \in DOMAIN t :
                                               allranges[k] >= allranges[Val(g1) + 1]})]
       ELSE LET lo == Val(ranges)[1]
                hi == Val(ranges)[2]
                t1 == IF lo = None THEN t
                      ELSE SetNaN(t, {k \in DOMAIN t : allranges[k] < Val(lo)})
            IN [err |-> "none",
                df |-> IF hi = None THEN t1
                       ELSE SetNaN(t1, {k \in DOMAIN t : allranges[k] > Val(hi)})]

\* ------------------------------ GalionCornellPEIWEE._filter_by_intensity
\* a variant that masks the intensity column alone, not the whole row
FilterByIntensity_ColumnOnly(t, min_intensity, max_intensity) ==
    LET mask(row) == \/ min_intensity # None /\ Lt(row.data.intensity, Val(min_intensity))
                     \/ max_intensity # None /\ Gt(row.data.intensity, Val(max_intensity))
    IN [k \in DOMAIN t |-> IF mask(t[k]) THEN [t[k] EXCEPT !.data.intensity = NaN]
                           ELSE t[k]]

FilterByIntensity(t, min_intensity, max_intensity) ==
    LET t1 == IF min_intensity = None THEN t
              ELSE SetNaN(t, {k \in DOMAIN t : Lt(t[k].data.intensity, Val(min_intensity))})
    IN IF max_intensity = None THEN t1
       ELSE SetNaN(t1, {k \in DOMAIN t : Gt(t1[k].data.intensity, Val(max_intensity))})

\* ------------------------------------------ GalionCornellPEIWEE.__init__
\* The constructor runs _load, LidarData.__init__, _filter_by_range and
\* _filter_by_intensity in this order; pc is its position.  The container
\* is constructed ("ready") only when the last of them has returned.
Opt(S) == {None} \cup {Some(v) : v \in S}
OptPair(S) == {None} \cup {Some(<<a, b>>) : a \in Opt(S), b \in Opt(S)}

PEIWEE_Load ==
    /\ pc = "new"
    /\ raw # <<>>
    /\ LET t == PEIWEE_load(raw, minimum_range, default_gate_size)
           c == CheckData(PEIWEE_names, t, FALSE, preset)
       IN /\ df' = t
          /\ names' = PEIWEE_names
          /\ plain' = FALSE
          /\ IF c.err = "none"
               THEN /\ pc' = "filter_by_range"
                    /\ scan' = c.scan
                    /\ RHI' = c.RHI /\ PPI' = c.PPI
                    /\ range_gate_size' = c.size
                    /\ rmin' = c.rmin /\ rmax' = c.rmax
                    /\ err' = "none"
               ELSE /\ pc' = "failed"
                    /\ err' = c.err
                    /\ UNCHANGED <<scan, RHI, PPI, range_gate_size, rmin, rmax>>
    /\ call' = [name |-> "GalionCornellPEIWEE", range_gates |-> None, ranges |-> None,
                intensity_range |-> <<None, None>>]
    /\ UNCHANGED <<raw, preset, ret>>

PEIWEE_FilterByRange(range_gates, ranges) ==
    /\ pc = "filter_by_range"
    /\ LET f == FilterByRange(df, range_gates, ranges)
       IN /\ df' = f.df
          /\ err' = f.err
          /\ pc' = IF f.err = "none" THEN "filter_by_intensity" ELSE "failed"
    /\ call' = [call EXCEPT !.range_gates = range_gates, !.ranges = ranges]
    /\ UNCHANGED <<names, plain, raw, preset, scan, RHI, PPI, range_gate_size, rmin, rmax, ret>>

PEIWEE_FilterByIntensity(min_intensity, max_intensity) ==
    /\ pc = "filter_by_intensity"
    /\ df' = FilterByIntensity(df, min_intensity, max_intensity)
    /\ pc' = "ready"
    /\ call' = [call EXCEPT !.intensity_range = <<min_intensity, max_intensity>>]
    /\ UNCHANGED <<names, plain, raw, preset, scan, RHI, PPI, range_gate_size, rmin, rmax,
                   err, ret>>

\* the files read: at most MaxRows rows with distinct (gate, azimuth,
\* elevation), listed ray by ray (azimuth first), one intensity each
FileKeys == {<<g, az, 10>> : g \in 0..MaxFileGate, az \in {0, 90}}

RECURSIVE FileOrder(_)
FileOrder(rows) ==
    IF rows = {} THEN <<>>
    ELSE LET m == CHOOSE x \in rows : \A y \in rows :
                      x = y \/ KeyLess(<<x.azimuth, x.elevation, x.range_gate>>,
                                       <<y.azimuth, y.elevation, y.range_gate>>)
         IN <<m>> \o FileOrder(rows \ {m})

Files ==
    UNION {{FileOrder({[range_gate |-> k[1], azimuth |-> k[2], elevation |-> k[3],
                        intensity |-> f[k]] : k \in S}) :
               f \in [S -> 1..MaxIntensity]} :
           S \in {T \in SUBSET FileKeys : T # {} /\ Cardinality(T) <= MaxRows}}

InitPEIWEE ==
    /\ raw \in Files
    /\ names = <<>>
    /\ plain = FALSE
    /\ df = <<>>
    /\ preset = None
    /\ pc = "new"
    /\ scan = ""
    /\ RHI = FALSE /\ PPI = FALSE
    /\ range_gate_size = 0 /\ rmin = 0 /\ rmax = 0
    /\ call = NoCall
    /\ err = "none"
    /\ ret = [sel |-> None, ret |-> None]

GateIndexes == 0..MaxRows
RangeBounds == {default_gate_size * k : k \in 1..MaxFileGate}
IntensityBounds == 1..MaxIntensity

\* the (range_gates, ranges) arguments: one of the two windows, neither, or
\* both with an open range_gates window
RangeArgs ==
    {<<rg, None>> : rg \in OptPair(GateIndexes)}
    \cup {<<None, rs>> : rs \in OptPair(RangeBounds)}
    \cup {<<Some(<<None, None>>), rs>> : rs \in OptPair(RangeBounds)}

NextPEIWEE ==
    \/ PEIWEE_Load
    \/ \E a \in RangeArgs : PEIWEE_FilterByRange(a[1], a[2])
    \/ \E lo \in Opt(IntensityBounds), hi \in Opt(IntensityBounds) :
          PEIWEE_FilterByIntensity(lo, hi)

SpecPEIWEE == InitPEIWEE /\ [][NextPEIWEE]_vars

\* ======================================================================
\* Properties
\* ======================================================================
HasAxis(name) == name \in Range(names)

\* the values the table holds on the axis of that name
AxisValues(name) == {df[k].key[LevelOf(names, name)] : k \in DOMAIN df}

Max(S) == CHOOSE x \in S : \A y \in S : y <= x

\* the four scan types
ValidAxisSets == {{"range", "azimuth", "elevation"}, {"azimuth", "elevation"},
                  {"range", "elevation"}, {"range", "azimuth"}}

\* a constructed container of one of the four scan types
Constructed == pc = "ready" /\ Range(names) \in ValidAxisSets

IsMissing(row) == \A c \in DOMAIN row.data : row.data[c] = NaN

\* the rows of the gate centered at c, all axes kept in the key
GateRows(c) ==
    [names |-> names,
     rows |-> SelectSeq(df, LAMBDA row : row.key[LevelOf(names, "range")] = c)]

\* the cross-section at value w of the axis, that axis removed from the key
CrossSection(axis, w) ==
    LET i == LevelOf(names, axis)
        rows == SelectSeq(df, LAMBDA row : row.key[i] = w)
    IN [names |-> Drop(names, i),
        rows |-> [k \in DOMAIN rows |-> [rows[k] EXCEPT !.key = Drop(rows[k].key, i)]]]

\* C1: on a constructed container with range gates, get_range(r) with
\* rmin <= r < rmax succeeds and returns exactly the rows of the one gate
\* center c with c - s/2 <= r < c + s/2, all axes kept in the key.
C1_GetRangeInDomain ==
    (Constructed /\ call.name = "get_range" /\ HasAxis("range")
       /\ rmin <= call.r /\ call.r < rmax)
    => LET half == range_gate_size \div 2
           gates == {c \in AxisValues("range") : c - half <= call.r /\ call.r < c + half}
       IN /\ err = "none"
          /\ Cardinality(gates) = 1
          /\ \A c \in gates : ret.sel = Some(c) /\ ret.ret = Some(GateRows(c))

\* the spacing of the gate centers of a container is uniform
UniformGates ==
    HasAxis("range") =>
    LET g == SortedSeq(AxisValues("range"))
    IN \A i \in 1..(Len(g) - 1) : g[i + 1] - g[i] = range_gate_size

\* C1 where the gate spacing is uniform and the range axis is level 0
C1_OnUniformGates == UniformGates => C1_GetRangeInDomain

\* C2: get_range(r) raises the out-of-domain error iff r < rmin or r >= rmax;
\* get_azimuth / get_elevation raise it iff the value is below the minimum or
\* above the maximum available value of that axis.
C2_OutOfDomainIff ==
    /\ (Constructed /\ call.name = "get_range")
         => (err = "ValueError" <=> (call.r < rmin \/ call.r >= rmax))
    /\ (Constructed /\ call.name = "get_azimuth" /\ HasAxis("azimuth"))
         => (err = "ValueError" <=> (call.az < Min(AxisValues("azimuth"))
                                      \/ call.az > Max(AxisValues("azimuth"))))
    /\ (Constructed /\ call.name = "get_elevation" /\ HasAxis("elevation"))
         => (err = "ValueError" <=> (call.el < Min(AxisValues("elevation"))
                                      \/ call.el > Max(AxisValues("elevation"))))

\* C2 on volumetric containers, where the azimuth and the elevation are the
\* levels the slicers read
C2_OnVolumetric == (Len(names) = 3) => C2_OutOfDomainIff

\* C3: construction classifies the scan from the axes present, sets the RHI
\* and PPI flags, and rejects every other combination of axes with a
\* structural error, producing no container.
C3_Classification ==
    LET S == Range(names)
    IN /\ (pc = "ready" /\ S = {"range", "azimuth", "elevation"})
            => (scan = "volumetric" /\ ~RHI /\ ~PPI)
       /\ (pc = "ready" /\ S = {"azimuth", "elevation"})
            => (scan = "vertical" /\ ~RHI /\ ~PPI)
       /\ (pc = "ready" /\ S = {"range", "elevation"}) => (scan = "RHI" /\ RHI /\ ~PPI)
       /\ (pc = "ready" /\ S = {"range", "azimuth"}) => (scan = "PPI" /\ PPI /\ ~RHI)
       /\ (pc # "new" /\ S \notin ValidAxisSets) => (pc = "failed" /\ err = "IndexError")

\* the available value nearest to v, the least one of those equally near
NearestValue(S, v) ==
    Min({w \in S : \A u \in S : Abs(v - w) <= Abs(v - u)})

SnapsToNearest(op, axis, v) ==
    (Constructed /\ call.name = op /\ HasAxis(axis)
       /\ Min(AxisValues(axis)) <= v /\ v <= Max(AxisValues(axis))
       /\ v \notin AxisValues(axis))
    => LET w == NearestValue(AxisValues(axis), v)
       IN /\ err = "none"
          /\ ret.sel = Some(w)
          /\ ret.ret = Some(CrossSection(axis, w))

\* C4: for a value inside the inclusive bounds that is not available,
\* get_azimuth / get_elevation return the cross-section at an available value
\* of least absolute difference, the first such in ascending order on a tie.
C4_SnapToNearest ==
    /\ call.name = "get_azimuth" => SnapsToNearest("get_azimuth", "azimuth", call.az)
    /\ call.name = "get_elevation" => SnapsToNearest("get_elevation", "elevation", call.el)

\* C4 on volumetric containers
C4_OnVolumetric == (Len(names) = 3) => C4_SnapToNearest

\* C5: once the container is constructed, no call of get, get_range,
\* get_azimuth or get_elevation (returning, snapping or raising) changes its
\* table, range_gate_size, rmin, rmax or the RHI and PPI flags.
C5_SlicersKeepContainer ==
    [][pc = "ready" => /\ pc' = "ready"
                       /\ df' = df /\ names' = names
                       /\ range_gate_size' = range_gate_size
                       /\ rmin' = rmin /\ rmax' = rmax
                       /\ RHI' = RHI /\ PPI' = PPI]_vars

\* a get_azimuth call that snapped to another azimuth and returned
C5_Witness ==
    /\ pc = "ready" /\ call.name = "get_azimuth" /\ err = "none"
    /\ ret.sel # Some(call.az)

\* C6: the table after the loader's filters has the index of the loaded
\* table, every row is unchanged or has all of its fields missing, and every
\* row whose intensity is below min_intensity or above max_intensity is
\* entirely missing.
C6_FiltersOnlyMask ==
    pc = "ready" /\ raw # <<>> =>
    LET loaded == PEIWEE_load(raw, minimum_range, default_gate_size)
        lo == call.intensity_range[1]
        hi == call.intensity_range[2]
    IN /\ Len(df) = Len(loaded)
       /\ \A k \in DOMAIN df :
            /\ df[k].key = loaded[k].key
            /\ df[k] = loaded[k] \/ IsMissing(df[k])
            /\ (lo # None /\ loaded[k].data.intensity < Val(lo)) => IsMissing(df[k])
            /\ (hi # None /\ loaded[k].data.intensity > Val(hi)) => IsMissing(df[k])

\* a filtered table with a row masked for its intensity alone and a row left
\* as loaded
C6_Witness ==
    /\ pc = "ready" /\ raw # <<>>
    /\ call.range_gates = None /\ call.ranges = Some(<<None, None>>)
    /\ call.intensity_range[1] # None
    /\ \E k \in DOMAIN df : IsMissing(df[k])
    /\ \E k \in DOMAIN df : ~IsMissing(df[k])

\* C7 (state part): in a constructed container adjacent gate centers differ
\* by exactly range_gate_size, and a gate size fixed before validation equals
\* the size found.
C7_Uniform ==
    Constructed => /\ UniformGates
                   /\ preset # None => range_gate_size = Val(preset)

\* C7: the gate spacing of every constructed container is uniform, a gate
\* size fixed before validation equals the spacing found or construction
\* fails, and range_gate_size never changes after construction.
C7_UniformSpacing ==
    /\ []C7_Uniform
    /\ [][pc = "ready" => range_gate_size' = range_gate_size]_vars

\* C8: calc_xyz fails with an assertion when the index has no range axis and
\* no constant range is given, likewise when it has no azimuth axis and no
\* constant azimuth is given (whatever the range constant); a missing
\* elevation axis never fails and the elevation constant (0.0 by default) is
\* used.
C8_CalcXyzPreconditions ==
    call.name = "calc_xyz" =>
      /\ (~HasAxis("range") /\ call.range = None) => err = "AssertionError"
      /\ (~HasAxis("azimuth") /\ call.azimuth = None) => err = "AssertionError"
      /\ (/\ ~HasAxis("elevation")
          /\ HasAxis("range") \/ call.range # None
          /\ HasAxis("azimuth") \/ call.azimuth # None)
           => (err = "none" /\ Val(ret.ret).el = FromConst(call.elevation))

\* C9: on a container of each scan type the accessors r, az, el give the
\* sorted distinct values of the range, azimuth, elevation axis, and nothing
\* (absent or empty) for an axis the scan does not have.
AccessorOf(axis) == IF axis = "range" THEN r_prop
                    ELSE IF axis = "azimuth" THEN az_prop ELSE el_prop

C9_Accessors ==
    Constructed =>
      \A axis \in Range(AllNames) :
        IF HasAxis(axis)
          THEN AccessorOf(axis) = [err |-> "none", val |-> SortedSeq(AxisValues(axis))]
          ELSE AccessorOf(axis).err # "none" \/ AccessorOf(axis).val = <<>>

\* C9 on volumetric containers
C9_OnVolumetric == (Len(names) = 3) => C9_Accessors

\* C10: with range_gates = (min_gate, max_gate) given as gate numbers
\* (positions among the sorted distinct gate centers), the rows masked by the
\* range filter are exactly those whose gate center is at or below the center
\* of gate min_gate, or at or above the center of gate max_gate.
C10_RangeGateWindow ==
    (pc = "filter_by_intensity" /\ call.range_gates # None) =>
    LET gates == Levels(df, 1)
        g0 == Val(call.range_gates)[1]
        g1 == Val(call.range_gates)[2]
        valid(g) == g = None \/ Val(g) + 1 <= Len(gates)
    IN (valid(g0) /\ valid(g1)) =>
         \A k \in DOMAIN df :
           IsMissing(df[k]) <=>
             \/ g0 # None /\ df[k].key[1] <= gates[Val(g0) + 1]
             \/ g1 # None /\ df[k].key[1] >= gates[Val(g1) + 1]

\* C10 on files with one row per range gate
C10_OnOneRowPerGate ==
    (\A i, j \in DOMAIN raw : raw[i].range_gate = raw[j].range_gate => i = j)
    => C10_RangeGateWindow

====
